---- MODULE Spec2Model ----
(***************************************************************************)
(* Model of the catalog / client-request reconciliation dashboard          *)
(* (src/src/App.jsx): the record sanitizer, the identifier extractor, the  *)
(* derived views (activeCatalog, matchResult, matchStats, requestInsights) *)
(* and the handlers that change the catalog list, the active selection and *)
(* the client request set.                                                 *)
(*                                                                         *)
(* A JavaScript string is a sequence of one-character strings, so that     *)
(* toUpperCase, toLowerCase and trim are computed.  A JavaScript object is *)
(* the sequence of its <<key, value>> entries in enumeration order.        *)
(***************************************************************************)
EXTENDS Integers, Sequences, FiniteSets, Bags, TLC

VARIABLES catalogFiles, activeCatalogId, clientRecords, pending, nextId,
          lastClientUpload

vars == <<catalogFiles, activeCatalogId, clientRecords, pending, nextId,
          lastClientUpload>>

(***************************************************************************)
(* Bounds of the model.                                                    *)
(***************************************************************************)
\* catalogs ever created by crypto.randomUUID() in one behaviour
MaxIds == 2
\* handlers suspended at an await at the same time
MaxPending == 2
\* client records of a list handed directly to the derived views (SpecFn)
MaxFnLen == 2
\* catalog records of a list handed directly to the derived views (SpecFn)
MaxFnCatalogLen == 3

(***************************************************************************)
(* Strings.                                                                *)
(***************************************************************************)
LowerAlpha ==
  <<"a","b","c","d","e","f","g","h","i","j","k","l","m",
    "n","o","p","q","r","s","t","u","v","w","x","y","z">>

UpperAlpha ==
  <<"A","B","C","D","E","F","G","H","I","J","K","L","M",
    "N","O","P","Q","R","S","T","U","V","W","X","Y","Z">>

Digits == <<"0","1","2","3","4","5","6","7","8","9">>

\* the value a missing cell has (undefined / null): not a string
Null == <<"<null>">>

EmptyString == <<>>

InSeq(c, s) == \E i \in 1..Len(s) : s[i] = c

IndexIn(c, s) == CHOOSE i \in 1..Len(s) : s[i] = c

\* the upper-case letter of each lower-case letter
UpperOf ==
  [c \in {LowerAlpha[i] : i \in 1..Len(LowerAlpha)} |-> UpperAlpha[IndexIn(c, LowerAlpha)]]

\* the lower-case letter of each upper-case letter
LowerOf ==
  [c \in {UpperAlpha[i] : i \in 1..Len(UpperAlpha)} |-> LowerAlpha[IndexIn(c, UpperAlpha)]]

toUpperChar(c) == IF c \in DOMAIN UpperOf THEN UpperOf[c] ELSE c

toLowerChar(c) == IF c \in DOMAIN LowerOf THEN LowerOf[c] ELSE c

\* String.prototype.toUpperCase
toUpperCase(s) == [i \in 1..Len(s) |-> toUpperChar(s[i])]

\* String.prototype.toLowerCase
toLowerCase(s) == [i \in 1..Len(s) |-> toLowerChar(s[i])]

IsSpace(c) == c = " "

\* String.prototype.trim
trim(s) ==
  IF \A i \in 1..Len(s) : IsSpace(s[i])
    THEN EmptyString
    ELSE LET first == CHOOSE i \in 1..Len(s) :
                        /\ ~IsSpace(s[i])
                        /\ \A j \in 1..(i - 1) : IsSpace(s[j])
             last  == CHOOSE i \in 1..Len(s) :
                        /\ ~IsSpace(s[i])
                        /\ \A j \in (i + 1)..Len(s) : IsSpace(s[j])
         IN  SubSeq(s, first, last)

RECURSIVE ToDecimal(_)
\* String(n) of a non-negative integer, as in a template literal
ToDecimal(n) ==
  IF n < 10 THEN <<Digits[n + 1]>>
            ELSE ToDecimal(n \div 10) \o <<Digits[(n % 10) + 1]>>

\* JavaScript truthiness of a cell value: not undefined, not null, not ''
Truthy(v) == v # Null /\ v # EmptyString

(***************************************************************************)
(* Objects: the entries <<key, value>> in enumeration order.  An own       *)
(* property whose name is a canonical array index enumerates before the    *)
(* string-named ones, in ascending numeric order; the others enumerate in  *)
(* insertion order.                                                        *)
(***************************************************************************)
IsArrayIndex(k) ==
  /\ Len(k) > 0
  /\ \A i \in 1..Len(k) : InSeq(k[i], Digits)
  /\ (Len(k) > 1 => k[1] # "0")

RECURSIVE DecimalValue(_)
DecimalValue(k) ==
  IF Len(k) = 0 THEN 0
  ELSE 10 * DecimalValue(SubSeq(k, 1, Len(k) - 1)) + (IndexIn(k[Len(k)], Digits) - 1)

HasKey(obj, k) == \E i \in 1..Len(obj) : obj[i][1] = k

\* obj[k], for a key the object has
Get(obj, k) == obj[CHOOSE i \in 1..Len(obj) : obj[i][1] = k][2]

\* obj[k] = v
ObjSet(obj, k, v) ==
  IF HasKey(obj, k)
    THEN [i \in 1..Len(obj) |-> IF obj[i][1] = k THEN <<k, v>> ELSE obj[i]]
  ELSE IF IsArrayIndex(k)
    THEN LET before == SelectSeq(obj, LAMBDA e :
                         IsArrayIndex(e[1]) /\ DecimalValue(e[1]) < DecimalValue(k))
             after  == SelectSeq(obj, LAMBDA e :
                         ~(IsArrayIndex(e[1]) /\ DecimalValue(e[1]) < DecimalValue(k)))
         IN  before \o <<<<k, v>>>> \o after
  ELSE Append(obj, <<k, v>>)

\* a record reference that is null / undefined
NoRecord == <<Null>>

(***************************************************************************)
(* sanitizeRecords                                                         *)
(***************************************************************************)
RECURSIVE sanitizeEntries(_, _, _)
\* the forEach over Object.entries(record) that fills `sanitized`
sanitizeEntries(record, i, sanitized) ==
  IF i > Len(record) THEN sanitized
  ELSE LET key   == record[i][1]
           value == record[i][2]
       IN  IF value = Null THEN sanitizeEntries(record, i + 1, sanitized)
           ELSE IF trim(value) = EmptyString
                  THEN sanitizeEntries(record, i + 1, sanitized)
           ELSE sanitizeEntries(record, i + 1, ObjSet(sanitized, trim(key), trim(value)))

\* trims the values but keeps the blank ones
sanitizeRecord_keepBlank(record) ==
  SelectSeq([i \in 1..Len(record) |->
               <<trim(record[i][1]),
                 IF record[i][2] = Null THEN Null ELSE trim(record[i][2])>>],
            LAMBDA entry : entry[2] # Null)

sanitizeRecord(record) == sanitizeEntries(record, 1, <<>>)

sanitizeRecords(records) ==
  SelectSeq([i \in 1..Len(records) |-> sanitizeRecord(records[i])],
            LAMBDA record : Len(record) > 0)

(***************************************************************************)
(* extractIdentifier                                                       *)
(***************************************************************************)
IDENTIFIER_KEYS ==
  << <<"p","a","r","t"," ","n","u","m","b","e","r">>,
     <<"p","a","r","t">>,
     <<"s","k","u">>,
     <<"p","n">>,
     <<"c","o","m","p","o","n","e","n","t">>,
     <<"i","t","e","m">>,
     <<"i","d">>,
     <<"m","p","n">>,
     <<"m","a","n","u","f","a","c","t","u","r","e","r"," ",
       "p","a","r","t"," ","n","u","m","b","e","r">> >>

RECURSIVE lowerMapFrom(_, _, _)
\* Object.fromEntries(Object.entries(record).map(([k, v]) => [k.toLowerCase(), v]))
lowerMapFrom(record, i, acc) ==
  IF i > Len(record) THEN acc
  ELSE lowerMapFrom(record, i + 1, ObjSet(acc, toLowerCase(record[i][1]), record[i][2]))

lowerMapOf(record) == lowerMapFrom(record, 1, <<>>)

\* lowerMap[candidate] is truthy
CandidateHit(lowerMap, candidate) ==
  HasKey(lowerMap, candidate) /\ Truthy(Get(lowerMap, candidate))

\* a fallback that takes the record's last value instead of its first
firstValueIdentifier_last(record) ==
  IF Len(record) > 0 /\ Truthy(record[Len(record)][2])
    THEN toUpperCase(record[Len(record)][2])
    ELSE EmptyString

\* the tail of extractIdentifier: Object.values(record)[0], uppercased
firstValueIdentifier(record) ==
  IF Len(record) > 0 /\ Truthy(record[1][2])
    THEN toUpperCase(record[1][2])
    ELSE EmptyString

\* a lookup that follows the record's own key order instead of IDENTIFIER_KEYS
extractIdentifier_recordOrder(record) ==
  IF record = NoRecord THEN EmptyString
  ELSE LET hits == {i \in 1..Len(record) :
                      /\ \E c \in 1..Len(IDENTIFIER_KEYS) :
                           IDENTIFIER_KEYS[c] = toLowerCase(record[i][1])
                      /\ Truthy(record[i][2])}
       IN  IF hits # {}
             THEN toUpperCase(record[CHOOSE i \in hits : \A j \in hits : i <= j][2])
             ELSE firstValueIdentifier(record)

extractIdentifier(record) ==
  IF record = NoRecord THEN EmptyString
  ELSE LET lowerMap == lowerMapOf(record)
       IN  IF \E c \in 1..Len(IDENTIFIER_KEYS) : CandidateHit(lowerMap, IDENTIFIER_KEYS[c])
             THEN LET c == CHOOSE c \in 1..Len(IDENTIFIER_KEYS) :
                             /\ CandidateHit(lowerMap, IDENTIFIER_KEYS[c])
                             /\ \A d \in 1..(c - 1) :
                                  ~CandidateHit(lowerMap, IDENTIFIER_KEYS[d])
                  IN  toUpperCase(Get(lowerMap, IDENTIFIER_KEYS[c]))
             ELSE firstValueIdentifier(record)

(***************************************************************************)
(* Map: the entries <<key, value>> in insertion order.                     *)
(***************************************************************************)
MapHas(m, k) == \E i \in 1..Len(m) : m[i][1] = k

MapGet(m, k) == m[CHOOSE i \in 1..Len(m) : m[i][1] = k][2]

MapSet(m, k, v) ==
  IF MapHas(m, k)
    THEN [i \in 1..Len(m) |-> IF m[i][1] = k THEN <<k, v>> ELSE m[i]]
    ELSE Append(m, <<k, v>>)

(***************************************************************************)
(* Derived views (useMemo).  A reference to a record object is modelled by *)
(* the position of the object in the list that owns it (ref, catalogRef).  *)
(***************************************************************************)
NoCatalog == [id |-> 0, name |-> <<>>, records |-> <<>>]

activeCatalogOf(files, activeId) ==
  IF \E i \in 1..Len(files) : files[i].id = activeId
    THEN files[CHOOSE i \in 1..Len(files) :
                 /\ files[i].id = activeId
                 /\ \A j \in 1..(i - 1) : files[j].id # activeId]
    ELSE NoCatalog

activeCatalog == activeCatalogOf(catalogFiles, activeCatalogId)

\* an index that keeps the first record of an identifier
catalogIndexStep_firstWins(index, record, ref) ==
  LET identifier == extractIdentifier(record)
  IN  IF identifier # EmptyString /\ ~MapHas(index, identifier)
        THEN MapSet(index, identifier, ref)
        ELSE index

\* the body of activeCatalog.records.forEach: one record into the index
catalogIndexStep(index, record, ref) ==
  LET identifier == extractIdentifier(record)
  IN  IF identifier # EmptyString THEN MapSet(index, identifier, ref) ELSE index

RECURSIVE catalogIndexFrom(_, _, _)
catalogIndexFrom(records, i, index) ==
  IF i > Len(records) THEN index
  ELSE catalogIndexFrom(records, i + 1, catalogIndexStep(index, records[i], i))

catalogIndexOf(records) == catalogIndexFrom(records, 1, <<>>)

ReasonNoIdentifier == "No identifier detected"
ReasonNotPresent == "Not present in catalog"

FoundEntry(catalogRecords, catalogIndex, record, ref, identifier) ==
  [requested |-> record, ref |-> ref,
   catalog |-> catalogRecords[MapGet(catalogIndex, identifier)],
   catalogRef |-> MapGet(catalogIndex, identifier)]

MissingEntry(record, ref, reason) == [record |-> record, ref |-> ref, reason |-> reason]

\* a loop body that forgets the records absent from the catalog
matchStep_dropAbsent(catalogRecords, catalogIndex, record, ref, acc) ==
  LET identifier == extractIdentifier(record)
  IN  IF identifier = EmptyString
        THEN [acc EXCEPT !.missing =
                Append(@, MissingEntry(record, ref, ReasonNoIdentifier))]
      ELSE IF MapHas(catalogIndex, identifier)
        THEN [acc EXCEPT !.found =
                Append(@, FoundEntry(catalogRecords, catalogIndex, record, ref, identifier))]
      ELSE acc

\* a loop body without the test for an empty identifier
matchStep_noEmptyCheck(catalogRecords, catalogIndex, record, ref, acc) ==
  LET identifier == extractIdentifier(record)
  IN  IF MapHas(catalogIndex, identifier)
        THEN [acc EXCEPT !.found =
                Append(@, FoundEntry(catalogRecords, catalogIndex, record, ref, identifier))]
        ELSE [acc EXCEPT !.missing =
                Append(@, MissingEntry(record, ref, ReasonNotPresent))]

\* a loop body that puts a found pair in front (unshift) instead of at the end
matchStep_unshift(catalogRecords, catalogIndex, record, ref, acc) ==
  LET identifier == extractIdentifier(record)
  IN  IF identifier = EmptyString
        THEN [acc EXCEPT !.missing =
                Append(@, MissingEntry(record, ref, ReasonNoIdentifier))]
      ELSE IF MapHas(catalogIndex, identifier)
        THEN [acc EXCEPT !.found =
                <<FoundEntry(catalogRecords, catalogIndex, record, ref, identifier)>> \o @]
      ELSE [acc EXCEPT !.missing =
                Append(@, MissingEntry(record, ref, ReasonNotPresent))]

\* the body of clientRecords.forEach: one client record into found or missing
matchStep(catalogRecords, catalogIndex, record, ref, acc) ==
  LET identifier == extractIdentifier(record)
  IN  IF identifier = EmptyString
        THEN [acc EXCEPT !.missing =
                Append(@, MissingEntry(record, ref, ReasonNoIdentifier))]
      ELSE IF MapHas(catalogIndex, identifier)
        THEN [acc EXCEPT !.found =
                Append(@, FoundEntry(catalogRecords, catalogIndex, record, ref, identifier))]
      ELSE [acc EXCEPT !.missing =
                Append(@, MissingEntry(record, ref, ReasonNotPresent))]

RECURSIVE matchFrom(_, _, _, _, _)
matchFrom(catalogRecords, catalogIndex, records, i, acc) ==
  IF i > Len(records) THEN acc
  ELSE matchFrom(catalogRecords, catalogIndex, records, i + 1,
                 matchStep(catalogRecords, catalogIndex, records[i], i, acc))

\* an early return that only looks at the client records
matchSkipped_clientOnly(catalog, records) == Len(records) = 0

\* the early return of matchResult
matchSkipped(catalog, records) == catalog = NoCatalog \/ Len(records) = 0

matchResultOf(catalog, records) ==
  IF matchSkipped(catalog, records)
    THEN [found |-> <<>>, missing |-> <<>>]
    ELSE matchFrom(catalog.records, catalogIndexOf(catalog.records), records, 1,
                   [found |-> <<>>, missing |-> <<>>])

matchResult == matchResultOf(activeCatalog, clientRecords)

\* truncation instead of rounding
MathRound_floor(num, den) == num \div den

\* Math.round(x) of the rational x = num / den, den > 0, num >= 0
MathRound(num, den) == (2 * num + den) \div (2 * den)

coverageOf(found, total) == IF total # 0 THEN MathRound(found * 100, total) ELSE 0

matchStatsOf(total, m) ==
  [total    |-> total,
   found    |-> Len(m.found),
   missing  |-> Len(m.missing),
   coverage |-> coverageOf(Len(m.found), total)]

matchStats == LET m == matchResult IN matchStatsOf(Len(clientRecords), m)

RowKeyPrefix == <<"r","o","w","-">>

\* one shared key for every record without identifier
insightKey_identifier(record, index) == extractIdentifier(record)

\* the key a client record is counted under
insightKey(record, index) ==
  LET identifier == extractIdentifier(record)
  IN  IF identifier # EmptyString THEN identifier ELSE RowKeyPrefix \o ToDecimal(index)

UnidentifiedLabel(index) ==
  <<"U","n","i","d","e","n","t","i","f","i","e","d"," ","r","o","w"," ">>
    \o ToDecimal(index + 1)

\* the body of clientRecords.forEach in requestInsights; index is 0-based
insightStep(record, index, acc) ==
  LET identifier == extractIdentifier(record)
      key        == insightKey(record, index)
      current    == IF MapHas(acc.identifierCounts, key)
                      THEN MapGet(acc.identifierCounts, key) ELSE 0
  IN  [identifierCounts  |-> MapSet(acc.identifierCounts, key, current + 1),
       duplicateMap      |->
         IF current >= 1
           THEN MapSet(acc.duplicateMap, key,
                       [identifier  |-> IF identifier # EmptyString
                                          THEN identifier ELSE UnidentifiedLabel(index),
                        occurrences |-> current + 1])
           ELSE acc.duplicateMap,
       unidentifiedCount |-> IF identifier = EmptyString
                               THEN acc.unidentifiedCount + 1
                               ELSE acc.unidentifiedCount]

RECURSIVE insightFrom(_, _, _)
insightFrom(records, i, acc) ==
  IF i > Len(records) THEN acc
  ELSE insightFrom(records, i + 1, insightStep(records[i], i - 1, acc))

\* leaves the entries in the order of insertion
insertByOccurrences_append(sorted, e) == Append(sorted, e)

RECURSIVE insertByOccurrences(_, _)
\* one step of the stable sort (a, b) => b.occurrences - a.occurrences
insertByOccurrences(sorted, e) ==
  IF Len(sorted) = 0 THEN <<e>>
  ELSE IF sorted[Len(sorted)].occurrences >= e.occurrences THEN Append(sorted, e)
  ELSE Append(insertByOccurrences(SubSeq(sorted, 1, Len(sorted) - 1), e),
              sorted[Len(sorted)])

RECURSIVE sortByOccurrences(_, _, _)
sortByOccurrences(values, i, sorted) ==
  IF i > Len(values) THEN sorted
  ELSE sortByOccurrences(values, i + 1, insertByOccurrences(sorted, values[i]))

requestInsightsOf(records) ==
  IF Len(records) = 0
    THEN [uniqueCount |-> 0, duplicateCount |-> 0, unidentifiedCount |-> 0,
          duplicates |-> <<>>]
    ELSE LET acc == insightFrom(records, 1,
                      [identifierCounts |-> <<>>, duplicateMap |-> <<>>,
                       unidentifiedCount |-> 0])
         IN  [uniqueCount       |-> Len(acc.identifierCounts),
              duplicateCount    |-> Len(records) - Len(acc.identifierCounts),
              unidentifiedCount |-> acc.unidentifiedCount,
              duplicates        |->
                sortByOccurrences(
                  [i \in 1..Len(acc.duplicateMap) |-> acc.duplicateMap[i][2]], 1, <<>>)]

requestInsights == requestInsightsOf(clientRecords)

(***************************************************************************)
(* getFieldValue, topManufacturers, topFamilies                            *)
(***************************************************************************)
MANUFACTURER_FIELDS ==
  << <<"m","a","n","u","f","a","c","t","u","r","e","r">>,
     <<"b","r","a","n","d">>,
     <<"m","a","k","e","r">>,
     <<"v","e","n","d","o","r">> >>

FAMILY_FIELDS ==
  << <<"f","a","m","i","l","y">>,
     <<"s","e","r","i","e","s">>,
     <<"p","r","o","d","u","c","t"," ","f","a","m","i","l","y">>,
     <<"p","r","o","d","u","c","t">> >>

UnspecifiedManufacturer ==
  <<"U","n","s","p","e","c","i","f","i","e","d"," ",
    "m","a","n","u","f","a","c","t","u","r","e","r">>

GeneralCatalog ==
  <<"G","e","n","e","r","a","l"," ","c","a","t","a","l","o","g">>

\* the argument of slice(0, 3)
TopN == 3

RECURSIVE fieldValueFrom(_, _, _)
\* the inner loop of getFieldValue: the first entry, in the record's order,
\* whose lower-cased key is lowerField and whose trimmed value is not empty
fieldValueFrom(entries, lowerField, i) ==
  IF i > Len(entries) THEN EmptyString
  ELSE LET key   == entries[i][1]
           value == entries[i][2]
       IN  IF /\ toLowerCase(key) = lowerField
              /\ value # Null
              /\ trim(value) # EmptyString
             THEN trim(value)
             ELSE fieldValueFrom(entries, lowerField, i + 1)

RECURSIVE getFieldValueFrom(_, _, _)
\* the outer loop of getFieldValue, over the candidate field names
getFieldValueFrom(record, fieldNames, f) ==
  IF f > Len(fieldNames) THEN EmptyString
  ELSE LET hit == fieldValueFrom(record, toLowerCase(fieldNames[f]), 1)
       IN  IF hit # EmptyString THEN hit
           ELSE getFieldValueFrom(record, fieldNames, f + 1)

getFieldValue(record, fieldNames) ==
  IF record = NoRecord THEN EmptyString
  ELSE getFieldValueFrom(record, fieldNames, 1)

\* getFieldValue(catalog, fieldNames) || fallback
nameOf(catalog, fieldNames, fallback) ==
  LET value == getFieldValue(catalog, fieldNames)
  IN  IF value # EmptyString THEN value ELSE fallback

RECURSIVE tallyFrom(_, _, _, _, _)
\* matchResult.found.forEach: counts.set(name, (counts.get(name) ?? 0) + 1)
tallyFrom(found, fieldNames, fallback, i, counts) ==
  IF i > Len(found) THEN counts
  ELSE LET name    == nameOf(found[i].catalog, fieldNames, fallback)
           current == IF MapHas(counts, name) THEN MapGet(counts, name) ELSE 0
       IN  tallyFrom(found, fieldNames, fallback, i + 1,
                     MapSet(counts, name, current + 1))

\* leaves the entries in the order of insertion
insertByCount_append(sorted, e) == Append(sorted, e)

RECURSIVE insertByCount(_, _)
\* one step of the stable sort (a, b) => b[1] - a[1]
insertByCount(sorted, e) ==
  IF Len(sorted) = 0 THEN <<e>>
  ELSE IF sorted[Len(sorted)][2] >= e[2] THEN Append(sorted, e)
  ELSE Append(insertByCount(SubSeq(sorted, 1, Len(sorted) - 1), e),
              sorted[Len(sorted)])

RECURSIVE sortByCount(_, _, _)
sortByCount(entries, i, sorted) ==
  IF i > Len(entries) THEN sorted
  ELSE sortByCount(entries, i + 1, insertByCount(sorted, entries[i]))

\* the body shared by topManufacturers and topFamilies
topOf(found, fieldNames, fallback) ==
  IF Len(found) = 0 THEN <<>>
  ELSE LET counts == tallyFrom(found, fieldNames, fallback, 1, <<>>)
           sorted == sortByCount(counts, 1, <<>>)
           top    == SubSeq(sorted, 1, IF Len(sorted) < TopN THEN Len(sorted) ELSE TopN)
       IN  [k \in 1..Len(top) |->
              [name       |-> top[k][1],
               count      |-> top[k][2],
               percentage |-> MathRound(top[k][2] * 100, Len(found))]]

topManufacturersOf(found) == topOf(found, MANUFACTURER_FIELDS, UnspecifiedManufacturer)

topFamiliesOf(found) == topOf(found, FAMILY_FIELDS, GeneralCatalog)

topManufacturers == LET m == matchResult IN topManufacturersOf(m.found)

topFamilies == LET m == matchResult IN topFamiliesOf(m.found)

(***************************************************************************)
(* downloadReport: the rows of the report                                  *)
(***************************************************************************)
RECURSIVE jsonEscape(_, _)
\* the characters of a JSON string literal between its quotes
jsonEscape(str, i) ==
  IF i > Len(str) THEN <<>>
  ELSE (IF str[i] \in {"\"", "\\"} THEN <<"\\", str[i]>> ELSE <<str[i]>>)
         \o jsonEscape(str, i + 1)

jsonValue(value) ==
  IF value = Null THEN <<"n","u","l","l">>
  ELSE <<"\"">> \o jsonEscape(value, 1) \o <<"\"">>

RECURSIVE jsonMembers(_, _)
jsonMembers(record, i) ==
  IF i > Len(record) THEN <<>>
  ELSE (IF i > 1 THEN <<",">> ELSE <<>>)
         \o jsonValue(record[i][1]) \o <<":">> \o jsonValue(record[i][2])
         \o jsonMembers(record, i + 1)

\* JSON.stringify of a record
JSONstringify(record) == <<"{">> \o jsonMembers(record, 1) \o <<"}">>

\* takes the first found entry whatever the identifier
findFound_any(found, identifier) == IF Len(found) > 0 THEN 1 ELSE 0

\* matchResult.found.find(item => extractIdentifier(item.requested) ===
\* identifier): the position of the entry, 0 for undefined
findFound(found, identifier) ==
  LET hits == {k \in 1..Len(found) :
                 extractIdentifier(found[k].requested) = identifier}
  IN  IF hits = {} THEN 0
      ELSE CHOOSE k \in hits : \A h \in hits : k <= h

\* the row of one client record: [identifier, status, match]
reportRow(record, found) ==
  LET identifier == extractIdentifier(record)
      foundEntry == findFound(found, identifier)
  IN  [identifier |-> identifier,
       status     |-> IF foundEntry # 0 THEN "Available" ELSE "Missing",
       match      |-> IF foundEntry # 0
                        THEN JSONstringify(found[foundEntry].catalog)
                        ELSE EmptyString]

reportRowsOf(records, found) ==
  [i \in 1..Len(records) |-> reportRow(records[i], found)]

\* the rows downloadReport writes in the current state
reportRows == LET m == matchResult IN reportRowsOf(clientRecords, m.found)

(***************************************************************************)
(* Files offered to the upload dialogs: the rows the decoder (PapaParse,   *)
(* SheetJS) hands to sanitizeRecords, before sanitizing.                   *)
(***************************************************************************)
K_PartNumber == <<"P","a","r","t"," ","N","u","m","b","e","r">>
K_PN == <<"P","N">>
K_pn == <<"p","n">>
K_pn_padded == <<" ","p","n"," ">>
K_SKU == <<"S","K","U">>
K_sku == <<"s","k","u">>
K_Notes == <<"N","o","t","e","s">>
K_Family == <<"F","a","m","i","l","y">>
K_Manufacturer == <<"M","a","n","u","f","a","c","t","u","r","e","r">>
K_7_padded == <<" ","7">>
K_Brand == <<"B","r","a","n","d">>
K_vendor == <<"v","e","n","d","o","r">>
K_Series == <<"S","e","r","i","e","s">>
K_family == <<"f","a","m","i","l","y">>

V_A1 == <<"A","1">>
V_a1 == <<"a","1">>
V_A1_padded == <<" ","A","1"," ">>
V_b2 == <<"b","2">>
V_x9 == <<"x","9">>
V_x9_padded == <<" ","x","9"," ">>
V_n1 == <<"n","1">>
V_q == <<"q">>
V_blank == <<" "," ">>
V_row0 == <<"r","o","w","-","0">>
V_Acme == <<"A","c","m","e">>
V_Bolt == <<"B","o","l","t">>
V_Cord == <<"C","o","r","d">>
V_Dyn == <<"D","y","n">>
V_S1 == <<"S","1">>
V_F1 == <<"F","1">>

Ext_csv == <<"c","s","v">>
Ext_xls == <<"x","l","s">>
Ext_xlsx == <<"x","l","s","x">>

File_catA ==
  [name |-> "catA.csv", extension |-> Ext_csv,
   rows |-> << << <<K_PartNumber, V_A1>>, <<K_Manufacturer, V_Acme>> >>,
               << <<K_Notes, V_blank>> >>,
               << <<K_PN, V_x9>>, <<K_pn, V_a1>>, <<K_Manufacturer, V_Bolt>> >>,
               << <<K_Family, EmptyString>>, <<K_SKU, V_x9_padded>> >>,
               << <<K_sku, V_b2>>, <<K_Series, V_S1>>, <<K_family, V_F1>>,
                  <<K_Brand, V_Cord>> >>,
               << <<K_Notes, V_q>>, <<K_vendor, V_Dyn>> >> >>]

\* a sheet whose only row sanitizes to nothing
File_catE ==
  [name |-> "catE.XLSX", extension |-> <<"X","L","S","X">>,
   rows |-> << << <<K_Notes, Null>>, <<K_PN, V_blank>> >> >>]

\* a file parseFile refuses
File_pdf == [name |-> "cat.pdf", extension |-> <<"p","d","f">>, rows |-> <<>>]

File_reqA ==
  [name |-> "reqA.csv", extension |-> Ext_csv,
   rows |-> << << <<K_PN, V_a1>> >>,
               << <<K_pn_padded, V_A1_padded>> >>,
               << <<K_Notes, V_n1>> >> >>]

File_reqB ==
  [name |-> "reqB.xls", extension |-> Ext_xls,
   rows |-> << << <<K_Notes, V_n1>>, <<K_PN, V_x9>>, <<K_sku, V_b2>> >>,
               << <<K_Notes, V_q>>, <<K_7_padded, V_x9>> >>,
               << <<K_SKU, V_x9>> >>,
               << <<K_sku, V_a1>> >>,
               << <<K_Notes, V_q>> >> >>]

\* the files the Update input of a catalog card may be given
CatalogFileSet == {File_catE}

\* the selections the catalog upload input may be given (multiple files)
CatalogSelections ==
  { <<File_catA>>, <<File_catE, File_catA>>, <<File_pdf>> }

\* the selections the client upload input may be given (multiple files)
ClientSelections ==
  { <<File_reqA>>, <<File_reqB, File_reqA>> }

\* the branch of parseFile a file takes: true when it resolves
parseSupported(file) ==
  LET extension == toLowerCase(file.extension)
  IN  extension = Ext_csv \/ extension \in {Ext_xls, Ext_xlsx}

\* the records parseFile resolves to
parseFile(file) == sanitizeRecords(file.rows)

SeqsUpTo(S, n) == UNION {[1..k -> S] : k \in 1..n}

(***************************************************************************)
(* State.  pending is the bag of the handlers suspended at an await, each  *)
(* with the values of its closure that it reads after the await; any of    *)
(* them may be resumed next.  lastClientUpload records the files of the    *)
(* most recent call of handleClientUpload (<<>> before the first call).    *)
(***************************************************************************)
Init ==
  /\ catalogFiles = <<>>
  /\ activeCatalogId = 0
  /\ clientRecords = <<>>
  /\ pending = EmptyBag
  /\ nextId = 1
  /\ lastClientUpload = <<>>

CatalogIds == {catalogFiles[i].id : i \in 1..Len(catalogFiles)}

Suspended == BagToSet(pending)

Suspend(op) == pending (+) SetToBag({op})

Resume(op) == pending (-) SetToBag({op})

RECURSIVE ReservedBy(_)
ReservedBy(ops) ==
  IF ops = {} THEN 0
  ELSE LET op == CHOOSE o \in ops : TRUE
       IN  (IF op.kind = "catalog" THEN CopiesIn(op, pending) * Len(op.files) ELSE 0)
             + ReservedBy(ops \ {op})

\* identities the suspended catalog uploads will draw
ReservedIds == ReservedBy(Suspended)

AllSupported(files) == \A i \in 1..Len(files) : parseSupported(files[i])

\* handleCatalogUpload, up to the await
CatalogUploadStart(files) ==
  /\ Len(files) > 0
  /\ BagCardinality(pending) < MaxPending
  /\ (nextId - 1) + ReservedIds + Len(files) <= MaxIds
  /\ pending' = Suspend([kind |-> "catalog", files |-> files,
                         activeCatalogId |-> activeCatalogId, catalogId |-> 0])
  /\ UNCHANGED <<catalogFiles, activeCatalogId, clientRecords, nextId, lastClientUpload>>

\* the objects Promise.all resolves to (uploadedAt, a display value that no
\* derived view reads, is left out)
uploadsOf(files, firstId) ==
  [i \in 1..Len(files) |->
     [id |-> firstId + i - 1, name |-> files[i].name, records |-> parseFile(files[i])]]

\* the selection after handleCatalogUpload, from the activeCatalogId of its closure
activeAfterUpload(captured, uploads, current) ==
  IF captured = 0 /\ Len(uploads) > 0 THEN uploads[1].id ELSE current

\* handleCatalogUpload, after the await
CatalogUploadDone(op) ==
  /\ op.kind = "catalog"
  /\ AllSupported(op.files)
  /\ LET uploads == uploadsOf(op.files, nextId)
     IN  /\ catalogFiles' = uploads \o catalogFiles
         /\ activeCatalogId' = activeAfterUpload(op.activeCatalogId, uploads, activeCatalogId)
         /\ nextId' = nextId + Len(uploads)
  /\ pending' = Resume(op)
  /\ UNCHANGED <<clientRecords, lastClientUpload>>

\* a handler whose parseFile throws or rejects: nothing after the await runs
UploadRejected(op) ==
  /\ ~AllSupported(op.files)
  /\ pending' = Resume(op)
  /\ UNCHANGED <<catalogFiles, activeCatalogId, clientRecords, nextId, lastClientUpload>>

\* overwrites the entry whatever its id
replaceEntry_any(entry, catalogId, file) ==
  [entry EXCEPT !.name = file.name, !.records = parseFile(file)]

\* handleCatalogReplace, up to the await (the Update input of a catalog card)
CatalogReplaceStart(file, catalogId) ==
  /\ catalogId \in CatalogIds
  /\ BagCardinality(pending) < MaxPending
  /\ pending' = Suspend([kind |-> "replace", files |-> <<file>>,
                         activeCatalogId |-> 0, catalogId |-> catalogId])
  /\ UNCHANGED <<catalogFiles, activeCatalogId, clientRecords, nextId, lastClientUpload>>

replaceEntry(entry, catalogId, file) ==
  IF entry.id = catalogId
    THEN [entry EXCEPT !.name = file.name, !.records = parseFile(file)]
    ELSE entry

\* handleCatalogReplace, after the await
CatalogReplaceDone(op) ==
  /\ op.kind = "replace"
  /\ AllSupported(op.files)
  /\ catalogFiles' = [j \in 1..Len(catalogFiles) |->
                        replaceEntry(catalogFiles[j], op.catalogId, op.files[1])]
  /\ pending' = Resume(op)
  /\ UNCHANGED <<activeCatalogId, clientRecords, nextId, lastClientUpload>>

\* handleClientUpload, up to the first await
ClientUploadStart(files) ==
  /\ Len(files) > 0
  /\ BagCardinality(pending) < MaxPending
  /\ pending' = Suspend([kind |-> "client", files |-> files,
                         activeCatalogId |-> 0, catalogId |-> 0])
  /\ lastClientUpload' = files
  /\ UNCHANGED <<catalogFiles, activeCatalogId, clientRecords, nextId>>

RECURSIVE combinedRecordsOf(_, _, _)
\* the for-of loop of handleClientUpload
combinedRecordsOf(files, i, combinedRecords) ==
  IF i > Len(files) THEN combinedRecords
  ELSE combinedRecordsOf(files, i + 1, combinedRecords \o parseFile(files[i]))

\* handleClientUpload, after the last await
ClientUploadDone(op) ==
  /\ op.kind = "client"
  /\ AllSupported(op.files)
  /\ clientRecords' = combinedRecordsOf(op.files, 1, <<>>)
  /\ pending' = Resume(op)
  /\ UNCHANGED <<catalogFiles, activeCatalogId, nextId, lastClientUpload>>

\* the Activate button of a catalog card
Activate(id) ==
  /\ id \in CatalogIds
  /\ activeCatalogId' = id
  /\ UNCHANGED <<catalogFiles, clientRecords, pending, nextId, lastClientUpload>>

\* a Delete that never clears the selection
activeAfterDelete_keep(current, id) == current

activeAfterDelete(current, id) == IF current = id THEN 0 ELSE current

\* the Delete button of a catalog card
Delete(id) ==
  /\ id \in CatalogIds
  /\ catalogFiles' = SelectSeq(catalogFiles, LAMBDA entry : entry.id # id)
  /\ activeCatalogId' = activeAfterDelete(activeCatalogId, id)
  /\ UNCHANGED <<clientRecords, pending, nextId, lastClientUpload>>

Next ==
  \/ \E files \in CatalogSelections : CatalogUploadStart(files)
  \/ \E op \in Suspended : CatalogUploadDone(op)
  \/ \E op \in Suspended : UploadRejected(op)
  \/ \E file \in CatalogFileSet, id \in 1..MaxIds : CatalogReplaceStart(file, id)
  \/ \E op \in Suspended : CatalogReplaceDone(op)
  \/ \E files \in ClientSelections : ClientUploadStart(files)
  \/ \E op \in Suspended : ClientUploadDone(op)
  \/ \E id \in 1..MaxIds : Activate(id)
  \/ \E id \in 1..MaxIds : Delete(id)

Spec == Init /\ [][Next]_vars

(***************************************************************************)
(* The derived views on record lists of any shape, sanitized or not: the   *)
(* lists are given directly and the synchronous handlers act on them.      *)
(***************************************************************************)
FnCatalogRecords ==
  { << <<K_PN, V_a1>> >>,
    << <<K_Notes, V_n1>>, <<K_sku, V_A1>> >>,
    << <<K_Notes, EmptyString>> >> }

FnClientRecords ==
  FnCatalogRecords \cup
  { <<>>,
    NoRecord,
    << <<K_Notes, V_row0>>, <<K_Family, V_q>> >>,
    << <<K_pn, EmptyString>>, <<K_Notes, V_x9>> >> }

InitFn ==
  /\ clientRecords \in {<<>>} \cup SeqsUpTo(FnClientRecords, MaxFnLen)
  /\ catalogFiles \in
       {<<>>} \cup
       { <<[id |-> 1, name |-> "catalog", records |-> records]>> :
           records \in {<<>>} \cup SeqsUpTo(FnCatalogRecords, MaxFnCatalogLen) }
  /\ activeCatalogId \in {0} \cup {catalogFiles[i].id : i \in 1..Len(catalogFiles)}
  /\ pending = EmptyBag
  /\ nextId = 2
  /\ lastClientUpload = <<>>

NextFn ==
  \/ \E id \in 1..MaxIds : Activate(id)
  \/ \E id \in 1..MaxIds : Delete(id)

SpecFn == InitFn /\ [][NextFn]_vars

(***************************************************************************)
(* Properties.  The derived views are bound once per state (m is           *)
(* matchResult, cat is activeCatalog).                                     *)
(***************************************************************************)
CatalogActive == activeCatalog # NoCatalog

\* positions of the records of cat that carry the identifier
CatalogPositions(cat, identifier) ==
  {j \in 1..Len(cat.records) : extractIdentifier(cat.records[j]) = identifier}

\* the positions of the client records in a list of matchResult
RefsOf(list) == [k \in 1..Len(list) |-> list[k].ref]

RefSet(list) == {list[k].ref : k \in 1..Len(list)}

TotalPartition(m) == Len(m.found) + Len(m.missing) = Len(clientRecords)

\* C1: in every state, whatever the active selection and the client request
\* set, found.length + missing.length equals clientRecords.length.
C1_TotalPartition == TotalPartition(matchResult)

\* C1, amended: the sizes add up to clientRecords.length whenever a catalog is
\* active or the client request set is empty; with no active catalog both
\* lists are empty.
C1_PartitionWhenActive ==
  LET m == matchResult
  IN  /\ (CatalogActive \/ Len(clientRecords) = 0) => TotalPartition(m)
      /\ ~CatalogActive => Len(m.found) + Len(m.missing) = 0

C1_Witness ==
  LET m == matchResult
  IN  /\ CatalogActive
      /\ Len(m.found) > 0
      /\ Len(m.missing) > 0
      /\ TotalPartition(m)

Classified(m, cat, i) ==
  LET identifier == extractIdentifier(clientRecords[i])
      positions  == CatalogPositions(cat, identifier)
  IN  IF identifier = EmptyString
        THEN /\ i \notin RefSet(m.found)
             /\ \E k \in 1..Len(m.missing) :
                  /\ m.missing[k].ref = i
                  /\ m.missing[k].record = clientRecords[i]
                  /\ m.missing[k].reason = "No identifier detected"
      ELSE IF positions # {}
        THEN /\ i \notin RefSet(m.missing)
             /\ \E k \in 1..Len(m.found) :
                  /\ m.found[k].ref = i
                  /\ m.found[k].requested = clientRecords[i]
                  /\ \E j \in positions : m.found[k].catalog = cat.records[j]
      ELSE /\ i \notin RefSet(m.found)
           /\ \E k \in 1..Len(m.missing) :
                /\ m.missing[k].ref = i
                /\ m.missing[k].record = clientRecords[i]
                /\ m.missing[k].reason = "Not present in catalog"

\* C2: with an active catalog and a non-empty client request set, a client
\* record with an empty identifier is missing with "No identifier detected";
\* one whose identifier is the identifier of some record of the active catalog
\* is found, paired with a catalog record of the same identifier; any other is
\* missing with "Not present in catalog".
C2_Classification ==
  LET m   == matchResult
      cat == activeCatalog
  IN  (CatalogActive /\ Len(clientRecords) > 0) =>
        \A i \in 1..Len(clientRecords) : Classified(m, cat, i)

\* an unidentified record and a record found through another field name and
\* another letter case than the catalog's
C2_Witness ==
  LET m == matchResult
  IN  /\ CatalogActive
      /\ \E k \in 1..Len(m.missing) : m.missing[k].reason = "No identifier detected"
      /\ \E k \in 1..Len(m.found) :
           /\ m.found[k].requested = << <<K_PN, V_a1>> >>
           /\ m.found[k].catalog = << <<K_Notes, V_n1>>, <<K_sku, V_A1>> >>

StrictlyIncreasing(refs) ==
  \A k \in 1..Len(refs), l \in 1..Len(refs) : k < l => refs[k] < refs[l]

ListsInOrder(m) ==
  /\ StrictlyIncreasing(RefsOf(m.found))
  /\ StrictlyIncreasing(RefsOf(m.missing))
  /\ \A k \in 1..Len(m.found) : m.found[k].requested = clientRecords[m.found[k].ref]
  /\ \A k \in 1..Len(m.missing) : m.missing[k].record = clientRecords[m.missing[k].ref]

ExactlyOne(m) ==
  /\ \A i \in 1..Len(clientRecords) :
       Cardinality({k \in 1..Len(m.found) : m.found[k].ref = i})
         + Cardinality({k \in 1..Len(m.missing) : m.missing[k].ref = i}) = 1
  /\ ListsInOrder(m)

\* C3: every client record appears in exactly one of found / missing, once,
\* and each list keeps the client records in their original relative order.
C3_ExactlyOne == LET m == matchResult IN ExactlyOne(m)

\* C3, amended: so it is whenever a catalog is active; with no active catalog
\* no client record appears in either list.
C3_ExactlyOneWhenActive ==
  LET m == matchResult
  IN  /\ CatalogActive => ExactlyOne(m)
      /\ ~CatalogActive => (m.found = <<>> /\ m.missing = <<>>)

C3_Witness ==
  LET m == matchResult
  IN  /\ CatalogActive
      /\ Len(m.found) >= 2
      /\ Len(m.missing) >= 1
      /\ m.found[1].ref < m.missing[1].ref

EmptyMatch(m) == m = [found |-> <<>>, missing |-> <<>>]

\* C4: with no active catalog, or an active catalog without records, or an
\* empty client request set, matchResult is (found = [], missing = []).
C4_EmptyInputs ==
  (~CatalogActive \/ Len(activeCatalog.records) = 0 \/ Len(clientRecords) = 0)
    => EmptyMatch(matchResult)

\* C4, amended: matchResult is (found = [], missing = []) with no active
\* catalog or an empty client request set; against an active catalog without
\* records, found is empty and every client record is missing with
\* "Not present in catalog" or "No identifier detected".
C4_EmptyInputsAmended ==
  LET m == matchResult
  IN  /\ (~CatalogActive \/ Len(clientRecords) = 0) => EmptyMatch(m)
      /\ (CatalogActive /\ Len(activeCatalog.records) = 0) =>
           /\ m.found = <<>>
           /\ RefsOf(m.missing) = [i \in 1..Len(clientRecords) |-> i]
           /\ \A k \in 1..Len(m.missing) :
                m.missing[k].reason \in
                  {"Not present in catalog", "No identifier detected"}

\* catalogs exist and client records are loaded, but none is active
C4_Witness ==
  /\ ~CatalogActive
  /\ Len(catalogFiles) > 0
  /\ Len(clientRecords) > 0
  /\ EmptyMatch(matchResult)

LastWriteWins(cat, f) ==
  LET positions == CatalogPositions(cat, extractIdentifier(f.requested))
  IN  /\ positions # {}
      /\ f.catalogRef \in positions
      /\ \A j \in positions : j <= f.catalogRef
      /\ f.catalog = cat.records[f.catalogRef]
      /\ extractIdentifier(f.catalog) # EmptyString

\* C5: a found pair holds the last record, in catalog order, of the active
\* catalog that carries the client record's identifier; no catalog record
\* with an empty identifier is indexed or paired.
C5_LastWriteWins ==
  LET m     == matchResult
      cat   == activeCatalog
      index == catalogIndexOf(cat.records)
  IN  /\ \A k \in 1..Len(m.found) : LastWriteWins(cat, m.found[k])
      /\ \A e \in 1..Len(index) :
           /\ index[e][1] # EmptyString
           /\ extractIdentifier(cat.records[index[e][2]]) = index[e][1]

\* two catalog records share the identifier, a third has none, and the pair
\* holds the later of the two
C5_Witness ==
  LET m   == matchResult
      cat == activeCatalog
  IN  /\ CatalogActive
      /\ \E j \in 1..Len(cat.records) : extractIdentifier(cat.records[j]) = EmptyString
      /\ \E k \in 1..Len(m.found) :
           /\ m.found[k].catalogRef = 2
           /\ CatalogPositions(cat, extractIdentifier(m.found[k].requested)) = {1, 2}
           /\ cat.records[1] # cat.records[2]

\* a cell that survives sanitizing: not null, not blank
NonBlank(v) == v # Null /\ trim(v) # EmptyString

\* the place in IDENTIFIER_KEYS of a field name, whatever its letter case and
\* the whitespace around it; 0 when it is no identifier field
PriorityOf(key) ==
  LET name == toLowerCase(trim(key))
  IN  IF \E c \in 1..Len(IDENTIFIER_KEYS) : IDENTIFIER_KEYS[c] = name
        THEN CHOOSE c \in 1..Len(IDENTIFIER_KEYS) : IDENTIFIER_KEYS[c] = name
        ELSE 0

\* per field of the row: the place of its name in IDENTIFIER_KEYS, or 0 when it
\* is no identifier field or its value is blank
Priorities(row) ==
  [i \in 1..Len(row) |-> IF NonBlank(row[i][2]) THEN PriorityOf(row[i][1]) ELSE 0]

HasPriorityField(priorities) == \E i \in 1..Len(priorities) : priorities[i] > 0

\* the uppercased, trimmed values of the fields of the row whose name comes
\* first in IDENTIFIER_KEYS
PriorityValues(row, priorities) ==
  LET fields == {i \in 1..Len(row) : priorities[i] > 0}
      best   == CHOOSE i \in fields : \A j \in fields : priorities[i] <= priorities[j]
  IN  {toUpperCase(trim(row[i][2])) : i \in {j \in fields : priorities[j] = priorities[best]}}

ExtractsPriority(record, row) ==
  LET priorities == Priorities(row)
  IN  HasPriorityField(priorities) =>
        extractIdentifier(record) \in PriorityValues(row, priorities)

\* C6: for a record with a non-empty identifier field, extractIdentifier is
\* the uppercased value of the field that comes first in IDENTIFIER_KEYS (not
\* in the record's own order), whatever the letter case of the field names and
\* the whitespace around names and values in the decoded file: it holds of
\* every stored record, and of every row of a file being decoded against the
\* record the sanitizer makes of it.
C6_PriorityIdentifier ==
  /\ \A i \in 1..Len(clientRecords) : ExtractsPriority(clientRecords[i], clientRecords[i])
  /\ \A c \in 1..Len(catalogFiles) : \A j \in 1..Len(catalogFiles[c].records) :
       ExtractsPriority(catalogFiles[c].records[j], catalogFiles[c].records[j])
  /\ \A op \in Suspended : \A f \in 1..Len(op.files) :
       \A r \in 1..Len(op.files[f].rows) :
         ExtractsPriority(sanitizeRecord(op.files[f].rows[r]), op.files[f].rows[r])

\* stored client records: one decoded from padded, lower-case " pn ", one whose
\* sku field follows its PN field
C6_Witness ==
  /\ \E i \in 1..Len(clientRecords) :
       /\ clientRecords[i] = << <<K_pn, V_A1>> >>
       /\ extractIdentifier(clientRecords[i]) = V_A1
  /\ \E i \in 1..Len(clientRecords) :
       /\ clientRecords[i] = << <<K_Notes, V_n1>>, <<K_PN, V_x9>>, <<K_sku, V_b2>> >>
       /\ extractIdentifier(clientRecords[i]) = <<"B","2">>

NoIdentifierField(record) ==
  record = NoRecord \/ \A i \in 1..Len(record) : PriorityOf(record[i][1]) = 0

FallsBack(record) ==
  NoIdentifierField(record) =>
    extractIdentifier(record) =
      IF record = NoRecord \/ Len(record) = 0 THEN EmptyString
      ELSE IF record[1][2] \in {EmptyString, Null} THEN EmptyString
      ELSE toUpperCase(record[1][2])

C8_Coverage ==
  LET stats == matchStats
  IN  /\ stats.total = Len(clientRecords)
      /\ stats.total = 0 => stats.coverage = 0
      /\ stats.total > 0 =>
           /\ 2 * stats.coverage * stats.total <= 200 * stats.found + stats.total
           /\ 200 * stats.found + stats.total < 2 * (stats.coverage + 1) * stats.total
      /\ stats.coverage \in 0..100

\* two of three client records found: 66.67 rounds to 67
C8_Witness ==
  LET stats == matchStats
  IN  stats.total = 3 /\ stats.found = 2 /\ stats.coverage = 67

\* what a client record is counted under: its identifier, or its own row
CountedUnder(i) ==
  LET identifier == extractIdentifier(clientRecords[i])
  IN  IF identifier # EmptyString THEN <<"identifier", identifier>> ELSE <<"row", i>>

\* C9: uniqueCount + duplicateCount is the number of client records, and
\* uniqueCount is the number of distinct identifiers plus the number of records
\* without identifier (none of which shares a key with another record).
C9_DuplicateCount ==
  LET insights == requestInsights
  IN  /\ insights.uniqueCount + insights.duplicateCount = Len(clientRecords)
      /\ insights.uniqueCount =
           Cardinality({CountedUnder(i) : i \in 1..Len(clientRecords)})

\* a first row without identifier (key "row-0") beside a record whose
\* identifier is "ROW-0"
C9_Witness ==
  /\ Len(clientRecords) = 2
  /\ extractIdentifier(clientRecords[1]) = EmptyString
  /\ extractIdentifier(clientRecords[2]) = <<"R","O","W","-","0">>
  /\ requestInsights.uniqueCount = 2
  /\ requestInsights.unidentifiedCount = 1

SelectionValid ==
  \/ activeCatalogId = 0
  \/ Cardinality({i \in 1..Len(catalogFiles) : catalogFiles[i].id = activeCatalogId}) = 1

\* a step that removes catalog id from the list
Removes(id) ==
  /\ id \in CatalogIds
  /\ {catalogFiles'[i].id : i \in 1..Len(catalogFiles')} = CatalogIds \ {id}

DeleteEffect ==
  \A id \in 1..MaxIds :
    Removes(id) => activeCatalogId' = (IF activeCatalogId = id THEN 0 ELSE activeCatalogId)

\* C10: the active selection is always none or the identity of exactly one
\* catalog of the list; a step that deletes the active catalog sets it to
\* none, a step that deletes another catalog leaves it as it was.
C10_ActiveSelection == []SelectionValid /\ [][DeleteEffect]_vars

\* the active catalog has been deleted and another catalog remains
C10_Witness ==
  /\ activeCatalogId = 0
  /\ Len(catalogFiles) = 1
  /\ nextId = 3

ClientUploadPending ==
  \E op \in Suspended : op.kind = "client"

\* C11: once no client upload is decoding any more, the Client Request Set
\* is exactly the concatenation, in file order, of the records of the files
\* of the most recently started client upload (when that upload could be
\* decoded): nothing of an earlier upload remains, also when the later
\* upload was started while the earlier one was still decoding.
C11_LatestUploadWins ==
  ( /\ ~ClientUploadPending
    /\ Len(lastClientUpload) > 0
    /\ AllSupported(lastClientUpload) )
  => clientRecords = combinedRecordsOf(lastClientUpload, 1, <<>>)

\* the identifiers of the records, in order
IdentifiersOf(records) ==
  <<>> \o [i \in 1..Len(records) |-> extractIdentifier(records[i])]

\* the number of positions of ids that hold x
Occurrences(ids, x) == Cardinality({i \in 1..Len(ids) : ids[i] = x})

\* the identifiers at two or more positions of ids
Duplicated(ids) ==
  {x \in {ids[i] : i \in 1..Len(ids)} : x # EmptyString /\ Occurrences(ids, x) >= 2}

\* C12: the duplicates list has exactly one entry for each canonical
\* identifier carried by two or more client records, the entry's occurrences
\* is the number of client records with that identifier, an identifier
\* carried once has no entry, and the list is in descending order of
\* occurrences.
C12_Duplicates ==
  LET ids        == IdentifiersOf(clientRecords)
      duplicated == Duplicated(ids)
      duplicates == requestInsights.duplicates
  IN  /\ Len(duplicates) = Cardinality(duplicated)
      /\ {duplicates[k].identifier : k \in 1..Len(duplicates)} = duplicated
      /\ \A k \in 1..Len(duplicates) :
            duplicates[k].occurrences = Occurrences(ids, duplicates[k].identifier)
      /\ \A k \in 1..(Len(duplicates) - 1) :
            duplicates[k].occurrences >= duplicates[k + 1].occurrences

\* X9 is the first identifier seen twice, A1 is seen three times (written
\* "a1" and " A1 " in the files) and is listed first; B2 is seen once
C12_Witness ==
  LET duplicates == requestInsights.duplicates
  IN  /\ Len(clientRecords) = 8
      /\ extractIdentifier(clientRecords[2]) = <<"X","9">>
      /\ extractIdentifier(clientRecords[3]) = <<"X","9">>
      /\ clientRecords[4] = << <<K_sku, V_a1>> >>
      /\ clientRecords[7] = << <<K_pn, V_A1>> >>
      /\ Len(duplicates) = 2
      /\ duplicates[1] = [identifier |-> V_A1, occurrences |-> 3]
      /\ duplicates[2] = [identifier |-> <<"X","9">>, occurrences |-> 2]

\* top is the top-3 distribution of the names the found pairs' catalog
\* records resolve to under fieldNames, with fallback for no value
IsTopDistribution(top, found, fieldNames, fallback) ==
  LET Name(k)  == LET value == getFieldValue(found[k].catalog, fieldNames)
                  IN  IF value = EmptyString THEN fallback ELSE value
      names    == <<>> \o [k \in 1..Len(found) |-> Name(k)]
      Names    == {names[k] : k \in 1..Len(found)}
      Count(n) == Cardinality({k \in 1..Len(found) : names[k] = n})
      Reported == {top[k].name : k \in 1..Len(top)}
  IN  /\ Len(top) <= 3
      /\ Len(top) = (IF Cardinality(Names) < 3 THEN Cardinality(Names) ELSE 3)
      /\ Cardinality(Reported) = Len(top)
      /\ Reported \subseteq Names
      /\ \A k \in 1..(Len(top) - 1) : top[k].count >= top[k + 1].count
      /\ \A k \in 1..Len(top) :
            /\ top[k].count = Count(top[k].name)
            /\ -Len(found) <= 2 * (100 * top[k].count - top[k].percentage * Len(found))
            /\ 2 * (100 * top[k].count - top[k].percentage * Len(found)) < Len(found)
            /\ \A n \in Names \ Reported : Count(n) <= top[k].count
      /\ (Len(found) = 0 => top = <<>>)

\* C13: topManufacturers and topFamilies are computed over the found pairs
\* only: at most 3 entries (as many as there are names, up to 3), with
\* distinct names, in descending order of count; no omitted name has a
\* greater count than a reported one; each count is the number of found
\* pairs whose catalog record resolves to the name (the fallback label when
\* no candidate field has a value); each percentage is count / found.length
\* * 100 rounded to the nearest integer; the list is empty when found is.
C13_TopDistribution ==
  LET m == matchResult
  IN  /\ IsTopDistribution(topManufacturersOf(m.found), m.found,
                            MANUFACTURER_FIELDS, UnspecifiedManufacturer)
      /\ IsTopDistribution(topFamiliesOf(m.found), m.found,
                            FAMILY_FIELDS, GeneralCatalog)

\* seven found pairs over four manufacturers, counted in the order Cord,
\* none, Bolt, Dyn: Dyn is omitted, the pairs without manufacturer are
\* reported under the fallback label; one pair has a family, F1, taken from
\* "family" although "Series" comes first in the record
C13_Witness ==
  LET m == matchResult
  IN  /\ Len(m.found) = 7
      /\ topManufacturersOf(m.found) =
            << [name |-> V_Bolt, count |-> 3, percentage |-> 43],
               [name |-> UnspecifiedManufacturer, count |-> 2, percentage |-> 29],
               [name |-> V_Cord, count |-> 1, percentage |-> 14] >>
      /\ topFamiliesOf(m.found) =
            << [name |-> GeneralCatalog, count |-> 6, percentage |-> 86],
               [name |-> V_F1, count |-> 1, percentage |-> 14] >>

InFound(m, i) == \E k \in 1..Len(m.found) : m.found[k].ref = i

InMissing(m, i) == \E k \in 1..Len(m.missing) : m.missing[k].ref = i

\* rows has one row per client record, in client order, "Available" with
\* the serialized paired catalog record for the records in found,
\* "Missing" with an empty match for the others
RowsFollowFound(rows, m) ==
  /\ Len(rows) = Len(clientRecords)
  /\ \A i \in 1..Len(rows) :
        /\ rows[i].identifier = extractIdentifier(clientRecords[i])
        /\ rows[i].status \in {"Available", "Missing"}
        /\ rows[i].status = "Available" <=> InFound(m, i)
        /\ \A k \in 1..Len(m.found) :
              m.found[k].ref = i => rows[i].match = JSONstringify(m.found[k].catalog)
        /\ ~InFound(m, i) => rows[i].match = EmptyString
  /\ Cardinality({i \in 1..Len(rows) : rows[i].status = "Available"}) = Len(m.found)

\* C14: the report has exactly one row per client record, in client order;
\* a row is "Available" exactly when its client record is in found and
\* "Missing" exactly when it is in missing; the match is the serialized
\* catalog record the client record was paired with, empty when missing.
C14_Report ==
  LET m    == matchResult
      rows == reportRowsOf(clientRecords, m.found)
  IN  /\ RowsFollowFound(rows, m)
      /\ \A i \in 1..Len(rows) : rows[i].status = "Missing" <=> InMissing(m, i)

\* C14 as amended: a row is "Missing" exactly when its client record is not
\* in found, which is the same as being in missing whenever a catalog is
\* active; with no active catalog every row is "Missing" and missing is
\* empty.
C14_ReportAmended ==
  LET m    == matchResult
      rows == reportRowsOf(clientRecords, m.found)
  IN  /\ RowsFollowFound(rows, m)
      /\ \A i \in 1..Len(rows) :
            /\ rows[i].status = "Missing" <=> ~InFound(m, i)
            /\ CatalogActive => (rows[i].status = "Missing" <=> InMissing(m, i))
            /\ ~CatalogActive => (rows[i].status = "Missing" /\ ~InMissing(m, i))

\* eight rows with a catalog active: the second is paired with the catalog
\* record {"SKU":"x9"}, the last has no match
C14_Witness ==
  LET rows == reportRows
  IN  /\ CatalogActive
      /\ Len(rows) = 8
      /\ rows[2] = [identifier |-> <<"X","9">>, status |-> "Available",
                     match |-> <<"{","\"","S","K","U","\"",":","\"","x","9","\"","}">>]
      /\ rows[8] = [identifier |-> <<"N","1">>, status |-> "Missing",
                     match |-> EmptyString]

\* a step in which the suspended handleCatalogReplace op resumes
ReplaceResumes(op) ==
  /\ op.kind = "replace"
  /\ pending' = Resume(op)

ReplaceFrame ==
  \A op \in Suspended :
    ReplaceResumes(op) =>
      /\ Len(catalogFiles') = Len(catalogFiles)
      /\ \A j \in 1..Len(catalogFiles) :
            /\ catalogFiles'[j].id = catalogFiles[j].id
            /\ catalogFiles[j].id # op.catalogId => catalogFiles'[j] = catalogFiles[j]
            /\ (catalogFiles[j].id = op.catalogId /\ AllSupported(op.files)) =>
                  /\ catalogFiles'[j].name = op.files[1].name
                  /\ catalogFiles'[j].records = sanitizeRecords(op.files[1].rows)
      /\ op.catalogId \notin CatalogIds => catalogFiles' = catalogFiles
      /\ activeCatalogId' = activeCatalogId
      /\ clientRecords' = clientRecords
      /\ nextId' = nextId

\* C15: a completing replace changes only the records and the name of the
\* catalog it targets: the identity and position of that catalog, every
\* other catalog, the number of catalogs, the active selection and the
\* client records are as before; when the target has been deleted in the
\* meantime the catalog list is unchanged (the catalog is not re-created).
C15_ReplaceFrame == [][ReplaceFrame]_vars

\* the first catalog ever uploaded (catA.csv, active) now carries the name
\* and the empty record list of catE.XLSX, and is still active
C15_Witness ==
  /\ nextId = 2
  /\ Len(catalogFiles) = 1
  /\ catalogFiles[1] = [id |-> 1, name |-> "catE.XLSX", records |-> <<>>]
  /\ activeCatalogId = 1

\* a step in which the suspended handleCatalogUpload op resumes
UploadResumes(op) ==
  /\ op.kind = "catalog"
  /\ pending' = Resume(op)

UploadKeepsSelection ==
  \A op \in Suspended :
    UploadResumes(op) =>
      /\ activeCatalogId # 0 => activeCatalogId' = activeCatalogId
      /\ (activeCatalogId = 0 /\ AllSupported(op.files)) =>
            activeCatalogId' = uploadsOf(op.files, nextId)[1].id

\* C16: a completing catalog upload changes the active selection only when
\* no catalog is active at the moment its results are applied, and then
\* activates the first uploaded catalog; a selection that exists at that
\* moment is kept, whatever was active when the upload was started.
C16_UploadKeepsSelection == [][UploadKeepsSelection]_vars

\* at least one field, every value a non-empty trimmed string
SanitizedRecord(record) ==
  /\ Len(record) > 0
  /\ \A i \in 1..Len(record) :
        /\ record[i][2] \notin {Null, EmptyString}
        /\ trim(record[i][2]) = record[i][2]

\* the records the uploads have stored: the client set and every catalog
StoredRecords ==
  {clientRecords[i] : i \in 1..Len(clientRecords)}
    \cup UNION {{catalogFiles[c].records[j] : j \in 1..Len(catalogFiles[c].records)} :
                 c \in 1..Len(catalogFiles)}

\* C17: every record the sanitizer produced has at least one field and only
\* non-empty trimmed values, and extractIdentifier returns a non-empty
\* identifier for it; so after any sequence of uploads no client record is
\* missing with reason "No identifier detected", unidentifiedCount is 0 and
\* every record of the active catalog has its identifier in the index.
C17_SanitizedIdentifiers ==
  LET m       == matchResult
      records == activeCatalog.records
      index   == catalogIndexOf(records)
  IN  /\ \A record \in StoredRecords :
            SanitizedRecord(record) /\ extractIdentifier(record) # EmptyString
      /\ \A k \in 1..Len(m.missing) : m.missing[k].reason # ReasonNoIdentifier
      /\ requestInsights.unidentifiedCount = 0
      /\ \A j \in 1..Len(records) : MapHas(index, extractIdentifier(records[j]))

\* catA.csv is active with the 5 records left of its 6 rows (one row is
\* blank, one loses a blank field), catE.XLSX has lost its only row, and
\* the one missing client record is missing for not being in the catalog
C17_Witness ==
  LET m == matchResult
  IN  /\ Len(clientRecords) = 8
      /\ Len(File_catA.rows) = 6
      /\ activeCatalog.name = "catA.csv"
      /\ Len(activeCatalog.records) = 5
      /\ activeCatalog.records[3] = << <<K_SKU, V_x9>> >>
      /\ \E c \in 1..Len(catalogFiles) :
            catalogFiles[c].name = "catE.XLSX" /\ catalogFiles[c].records = <<>>
      /\ Len(m.missing) = 1
      /\ m.missing[1].reason = ReasonNotPresent
      /\ requestInsights.unidentifiedCount = 0

====
